---- MODULE Spec2Model ----
(***************************************************************************)
(* ticket-amend (bin/ticket-amend.js): one run of the command-line tool as *)
(* a state machine.  A string is a sequence of one-character strings, so   *)
(* that trimming, splitting, substring search and the two regular          *)
(* expressions of the program are computed character by character.        *)
(***************************************************************************)
EXTENDS Integers, Sequences, FiniteSets, TLC

VARIABLES
  args,         \* process.argv.slice(2): a sequence of strings
  envSet,       \* whether TICKETS_DIR is present in the environment
  envDir,       \* its value (a path; <<>> is the empty string)
  cwd,          \* process.cwd(): a path, the sequence of its components
  tfiles,       \* paths that exist but are not directories
  store,        \* the directories that exist: path -> (file name -> content)
  store0,       \* history: the store when the first run started
  log,          \* history: the requests of the earlier successful runs
  pc,           \* the position of the script
  i,            \* the loop index of the argument loop
  id, description, type, priority, assignee, externalRef, parent, tags,
  ticketsDir,   \* const ticketsDir (line 99)
  dir,          \* the walk's current directory (line 83)
  ticketFile,   \* the resolved ticket: <<directory path, file name>>
  fields,       \* the ordered frontmatter entries (line 142)
  body,         \* fmMatch[2]
  newBody,      \* the body to write (line 223)
  exitCode,     \* the process's exit status, NoExit while it runs
  err,          \* what went to stderr
  out,          \* what went to stdout
  nwrites,      \* number of fs.writeFileSync calls of this run
  touched       \* whether this run has asked the file system anything

worldVars == <<envSet, envDir, cwd, tfiles, store, store0>>
reqVars   == <<id, description, type, priority, assignee, externalRef, parent, tags>>
locVars   == <<ticketsDir, dir, ticketFile>>
docVars   == <<fields, body, newBody>>
endVars   == <<exitCode, err, out>>
vars == <<args, worldVars, log, pc, i, reqVars, locVars, docVars, endVars,
          nwrites, touched>>

----------------------------------------------------------------------------
(* Strings *)

NL == "\n"
SP == " "

\* null and undefined: one-element sequences no string of characters equals
Null      == <<"<null>">>
Undefined == <<"<undefined>">>
S_undefined == <<"u","n","d","e","f","i","n","e","d">>

\* `${v}` and '' + v
Str(v) == IF v = Undefined THEN S_undefined ELSE v

Lower == {"a","b","c","d","e","f","g","h","i","j","k","l","m",
          "n","o","p","q","r","s","t","u","v","w","x","y","z"}
Digit == {"0","1","2","3","4","5","6","7","8","9"}
\* what String.prototype.trim strips, as far as the alphabet goes
WhiteSpace == {" ", "\n", "\t", "\r"}
\* what '.' of a regular expression does not match
LineTerminator == {"\n", "\r"}

StartsWith(s, p) == Len(p) <= Len(s) /\ SubSeq(s, 1, Len(p)) = p
EndsWith(s, p) ==
  Len(p) <= Len(s) /\ SubSeq(s, Len(s) - Len(p) + 1, Len(s)) = p
Includes(s, p) ==
  \E k \in 1..(Len(s) + 1) :
     k + Len(p) - 1 <= Len(s) /\ SubSeq(s, k, k + Len(p) - 1) = p

RECURSIVE TrimEnd(_)
TrimEnd(s) ==
  IF s # <<>> /\ s[Len(s)] \in WhiteSpace
  THEN TrimEnd(SubSeq(s, 1, Len(s) - 1)) ELSE s

RECURSIVE TrimStart(_)
TrimStart(s) ==
  IF s # <<>> /\ Head(s) \in WhiteSpace THEN TrimStart(Tail(s)) ELSE s

Trim(s) == TrimStart(TrimEnd(s))

\* s.split(c): the pieces between the occurrences of the character c
RECURSIVE SplitFrom(_, _, _)
SplitFrom(s, c, cur) ==
  IF s = <<>> THEN <<cur>>
  ELSE IF Head(s) = c THEN <<cur>> \o SplitFrom(Tail(s), c, <<>>)
  ELSE SplitFrom(Tail(s), c, Append(cur, Head(s)))
Split(s, c) == SplitFrom(s, c, <<>>)

\* list.join(sep)
RECURSIVE Join(_, _)
Join(list, sep) ==
  IF list = <<>> THEN <<>>
  ELSE IF Len(list) = 1 THEN list[1]
  ELSE list[1] \o sep \o Join(Tail(list), sep)

\* list.map(t => t.trim()).filter(Boolean)
RECURSIVE TrimmedNonEmpty(_)
TrimmedNonEmpty(list) ==
  IF list = <<>> THEN <<>>
  ELSE LET t == Trim(Head(list)) IN
       (IF t = <<>> THEN <<>> ELSE <<t>>) \o TrimmedNonEmpty(Tail(list))

SeqIncludes(list, x) == \E k \in 1..Len(list) : list[k] = x
Range(list) == {list[k] : k \in 1..Len(list)}

----------------------------------------------------------------------------
(* The frontmatter engine *)

K_type        == <<"t","y","p","e">>
K_priority    == <<"p","r","i","o","r","i","t","y">>
K_assignee    == <<"a","s","s","i","g","n","e","e">>
K_externalRef == <<"e","x","t","e","r","n","a","l","-","r","e","f">>
K_parent      == <<"p","a","r","e","n","t">>
K_tags        == <<"t","a","g","s">>

Delim == <<"-","-","-">>
Open  == Delim \o <<NL>>            \* ^---\n
Close == <<NL>> \o Delim \o <<NL>>  \* \n---\n

\* content.match(/^---\n([\s\S]*?)\n---\n([\s\S]*)$/): the positions where the
\* closing delimiter can start; the lazy group takes the first
ClosePositions(content) ==
  {k \in (Len(Open) + 1)..Len(content) :
      k + Len(Close) - 1 <= Len(content)
      /\ SubSeq(content, k, k + Len(Close) - 1) = Close}
HasFrontmatter(content) ==
  StartsWith(content, Open) /\ ClosePositions(content) # {}
ClosePos(content) ==
  CHOOSE k \in ClosePositions(content) :
     \A j \in ClosePositions(content) : k <= j
FrontmatterRaw(content) ==
  SubSeq(content, Len(Open) + 1, ClosePos(content) - 1)
BodyOf(content) ==
  SubSeq(content, ClosePos(content) + Len(Close), Len(content))

\* [a-z][a-z0-9-]* : the length of the longest prefix of the line it matches
RECURSIVE KeyLen(_, _)
KeyLen(line, n) ==
  IF n < Len(line)
     /\ (IF n = 0 THEN line[1] \in Lower
                  ELSE line[n + 1] \in Lower \cup Digit \cup {"-"})
  THEN KeyLen(line, n + 1) ELSE n

\* line.match(/^([a-z][a-z0-9-]*): ?(.*)$/)
LineMatches(line) ==
  LET n == KeyLen(line, 0) IN
    /\ n >= 1
    /\ n + 1 <= Len(line)
    /\ line[n + 1] = ":"
    /\ \A k \in (n + 2)..Len(line) : line[k] \notin LineTerminator
LineKey(line) == SubSeq(line, 1, KeyLen(line, 0))
LineValue(line) ==
  LET n == KeyLen(line, 0)
      from == IF n + 2 <= Len(line) /\ line[n + 2] = SP THEN n + 3 ELSE n + 2
  IN  SubSeq(line, from, Len(line))

Field(k, v) == [isRaw |-> FALSE, key |-> k, value |-> v, raw |-> Undefined]
Raw(line)   == [isRaw |-> TRUE, key |-> Undefined, value |-> Undefined,
                raw |-> line]

ParseLine(line) ==
  IF LineMatches(line) THEN Field(LineKey(line), LineValue(line))
  ELSE Raw(line)

\* lines 141-151
ParseFields(frontmatterRaw) ==
  LET fmLines == Split(frontmatterRaw, NL)
  IN  [k \in 1..Len(fmLines) |-> ParseLine(fmLines[k])]

\* fields.findIndex((f) => f.key === key), 0 for -1
FindIndex(fs, key) ==
  IF \E k \in 1..Len(fs) : fs[k].key = key
  THEN CHOOSE k \in 1..Len(fs) :
         fs[k].key = key /\ \A j \in 1..(k - 1) : fs[j].key # key
  ELSE 0

getField(fs, key) ==
  IF FindIndex(fs, key) = 0 THEN Null ELSE fs[FindIndex(fs, key)].value

setField(fs, key, value) ==
  LET idx == FindIndex(fs, key) IN
    IF idx # 0 THEN [fs EXCEPT ![idx].value = value]
    ELSE Append(fs, Field(key, value))

\* existing.replace(/^\[|\]$/g, '')
StripBrackets(s) ==
  LET a == IF s # <<>> /\ Head(s) = "[" THEN Tail(s) ELSE s
  IN  IF a # <<>> /\ a[Len(a)] = "]" THEN SubSeq(a, 1, Len(a) - 1) ELSE a

\* for (const t of newTags) if (!existingTags.includes(t)) existingTags.push(t)
PushAll(existingTags, newTags) == existingTags \o newTags
RECURSIVE PushNew(_, _)
PushNew(existingTags, newTags) ==
  IF newTags = <<>> THEN existingTags
  ELSE PushNew(IF SeqIncludes(existingTags, Head(newTags)) THEN existingTags
               ELSE Append(existingTags, Head(newTags)),
               Tail(newTags))

\* lines 200-209: the tags the field holds
ExistingTags(existing) ==
  IF existing # Null /\ existing # <<>>
  THEN TrimmedNonEmpty(Split(StripBrackets(Str(existing)), ","))
  ELSE <<>>

\* `[${existingTags.join(', ')}]`
EncodeTags(list) == <<"[">> \o Join(list, <<",", SP>>) \o <<"]">>

\* lines 199-220, for a string `tags`
AppendTags(fs, tagsArg) ==
  setField(fs, K_tags,
           EncodeTags(PushNew(ExistingTags(getField(fs, K_tags)),
                              TrimmedNonEmpty(Split(tagsArg, ",")))))

\* lines 226-227
AppendBodyNoTrim(b, text) == b \o <<NL, NL>> \o Str(text) \o <<NL>>
AppendBody(b, text) == TrimEnd(b) \o <<NL, NL>> \o Str(text) \o <<NL>>

\* lines 238-242
RenderField(f) == IF f.isRaw THEN f.raw ELSE f.key \o <<":", SP>> \o Str(f.value)
Serialize(fs, b) ==
  Open \o Join([k \in 1..Len(fs) |-> RenderField(fs[k])], <<NL>>)
       \o Close \o b

----------------------------------------------------------------------------
(* The command line *)

F_d           == <<"-","d">>
F_description == <<"-","-","d","e","s","c","r","i","p","t","i","o","n">>
F_t           == <<"-","t">>
F_type        == <<"-","-">> \o K_type
F_p           == <<"-","p">>
F_priority    == <<"-","-">> \o K_priority
F_a           == <<"-","a">>
F_assignee    == <<"-","-">> \o K_assignee
F_externalRef == <<"-","-">> \o K_externalRef
F_parent      == <<"-","-">> \o K_parent
F_tags        == <<"-","-">> \o K_tags
F_h           == <<"-","h">>
F_help        == <<"-","-","h","e","l","p">>
F_tkDescribe  == <<"-","-","t","k","-","d","e","s","c","r","i","b","e">>
\* documented in the README (part_000, lines 34-35)
F_set         == <<"-","-","s","e","t">>
F_append      == <<"-","-","a","p","p","e","n","d">>

NoExit == 99
NoErr  == [msg |-> "", arg |-> <<>>]
Error(m, a) == [msg |-> m, arg |-> a]

E_unknownOption == "Unknown option"
E_idRequired    == "ticket ID is required"
E_noTicketsDir  == "no .tickets directory found"
E_cannotRead    == "cannot read"
E_ambiguous     == "ambiguous ID"
E_notFound      == "not found"
E_noFrontmatter == "ticket has no valid frontmatter"
E_nothing       == "Nothing to amend"
E_typeError     == "TypeError"

O_describe == "tk-plugin: Amend fields on an existing ticket"
O_usage    == "Usage: ticket-amend <id> [options]"
O_amended  == "Amended"

\* !v for a string, null or undefined
Falsy(v) == v = Null \/ v = Undefined \/ v = <<>>

\* process.exit(code) after console.error / console.log
Exit(code, e, o) ==
  /\ exitCode' = code
  /\ err' = e
  /\ out' = o
  /\ pc' = "done"

\* Meta with the help test of line 16 made before the discovery test of line 11
MetaHelpFirst ==
  /\ pc = "start"
  /\ IF SeqIncludes(args, F_h) \/ SeqIncludes(args, F_help) \/ Len(args) = 0
     THEN Exit(0, NoErr, <<O_usage>>) /\ UNCHANGED i
     ELSE IF SeqIncludes(args, F_tkDescribe)
     THEN Exit(0, NoErr, <<O_describe>>) /\ UNCHANGED i
     ELSE pc' = "parse" /\ i' = 1 /\ UNCHANGED endVars
  /\ UNCHANGED <<args, worldVars, log, reqVars, locVars, docVars, nwrites, touched>>

\* lines 11-32: the discovery flag, then help
Meta ==
  /\ pc = "start"
  /\ IF SeqIncludes(args, F_tkDescribe)
     THEN Exit(0, NoErr, <<O_describe>>) /\ UNCHANGED i
     ELSE IF SeqIncludes(args, F_h) \/ SeqIncludes(args, F_help) \/ Len(args) = 0
     THEN Exit(0, NoErr, <<O_usage>>) /\ UNCHANGED i
     ELSE pc' = "parse" /\ i' = 1 /\ UNCHANGED endVars
  /\ UNCHANGED <<args, worldVars, log, reqVars, locVars, docVars, nwrites, touched>>

\* args[i].startsWith('-') (line 60)
IsOptionDoubleDashOnly(a) == StartsWith(a, <<"-">>) /\ ~StartsWith(a, <<"-","-">>)
IsOption(a) == StartsWith(a, <<"-">>)

\* args[++i]
NextArg == IF i + 1 <= Len(args) THEN args[i + 1] ELSE Undefined

\* lines 43-67: one iteration of the argument loop
ParseArg ==
  /\ pc = "parse"
  /\ i <= Len(args)
  /\ LET a == args[i]
         isD == a \in {F_d, F_description}
         isT == a \in {F_t, F_type}
         isP == a \in {F_p, F_priority}
         isA == a \in {F_a, F_assignee}
         isE == a = F_externalRef
         isPar == a = F_parent
         isTags == a = F_tags
         takesValue == isD \/ isT \/ isP \/ isA \/ isE \/ isPar \/ isTags
     IN
       IF takesValue
       THEN /\ description' = IF isD THEN NextArg ELSE description
            /\ type'        = IF isT THEN NextArg ELSE type
            /\ priority'    = IF isP THEN NextArg ELSE priority
            /\ assignee'    = IF isA THEN NextArg ELSE assignee
            /\ externalRef' = IF isE THEN NextArg ELSE externalRef
            /\ parent'      = IF isPar THEN NextArg ELSE parent
            /\ tags'        = IF isTags THEN NextArg ELSE tags
            /\ i' = i + 2
            /\ UNCHANGED <<id, pc, endVars>>
       ELSE IF IsOption(a)
       THEN /\ Exit(1, Error(E_unknownOption, a), <<>>)
            /\ UNCHANGED <<i, reqVars>>
       ELSE /\ id' = IF Falsy(id) THEN a ELSE id
            /\ i' = i + 1
            /\ UNCHANGED <<description, type, priority, assignee, externalRef,
                           parent, tags, pc, endVars>>
  /\ UNCHANGED <<args, worldVars, log, locVars, docVars, nwrites, touched>>

\* lines 69-72, reached when the loop ends
RequireId ==
  /\ pc = "parse"
  /\ i > Len(args)
  /\ IF Falsy(id)
     THEN Exit(1, Error(E_idRequired, <<>>), <<>>)
     ELSE pc' = "findDir" /\ UNCHANGED endVars
  /\ UNCHANGED <<args, worldVars, log, i, reqVars, locVars, docVars, nwrites,
                 touched>>

----------------------------------------------------------------------------
(* The ticket locator *)

Root == <<"/">>
TicketsName == ".tickets"
S_md == <<".","m","d">>

\* path.dirname and path.join(dir, name)
DirnameStuck(p) == p
Dirname(p) == IF Len(p) <= 1 THEN p ELSE SubSeq(p, 1, Len(p) - 1)
PathJoin(p, name) == Append(p, name)

\* fs.existsSync(p) and fs.statSync(p).isDirectory()
IsDirectory(p) == p \in DOMAIN store
Exists(p) == p \in DOMAIN store \/ p \in tfiles

\* if (envDir): undefined and the empty string are falsy (line 80)
HasEnvDirNever == FALSE
HasEnvDir == envSet /\ envDir # <<>>

\* lines 79-83: the override, or the start of the walk
FindTicketsDir ==
  /\ pc = "findDir"
  /\ IF HasEnvDir
     THEN ticketsDir' = envDir /\ pc' = "resolve" /\ UNCHANGED dir
     ELSE dir' = cwd /\ pc' = "walk" /\ UNCHANGED ticketsDir
  /\ UNCHANGED <<args, worldVars, log, i, reqVars, ticketFile, docVars, endVars,
                 nwrites, touched>>

\* lines 84-96: one iteration of the walk
Walk ==
  /\ pc = "walk"
  /\ touched' = TRUE
  /\ LET candidate == PathJoin(dir, TicketsName) IN
       IF Exists(candidate) /\ IsDirectory(candidate)
       THEN ticketsDir' = candidate /\ pc' = "resolve" /\ UNCHANGED <<dir, endVars>>
       ELSE IF Dirname(dir) = dir
       THEN Exit(1, Error(E_noTicketsDir, <<>>), <<>>) /\ UNCHANGED <<dir, ticketsDir>>
       ELSE dir' = Dirname(dir) /\ UNCHANGED <<ticketsDir, pc, endVars>>
  /\ UNCHANGED <<args, worldVars, log, i, reqVars, ticketFile, docVars, nwrites>>

NoFile == <<<<>>, <<>>>>

\* entries.filter((f) => f.endsWith('.md') && f.includes(id.trim()))
MatchesAnyEntry(td, ident) ==
  {f \in DOMAIN store[td] : Includes(f, Trim(ident))}
Matches(td, ident) ==
  {f \in DOMAIN store[td] : EndsWith(f, S_md) /\ Includes(f, Trim(ident))}

\* lines 101-124: the file, or the error the run ends with
resolveTicket(td, ident) ==
  IF ident = Undefined \/ ident = Null
  THEN [ok |-> FALSE, file |-> NoFile, err |-> Error(E_typeError, <<>>)]
  ELSE IF IsDirectory(td) /\ (Trim(ident) \o S_md) \in DOMAIN store[td]
  THEN [ok |-> TRUE, file |-> <<td, Trim(ident) \o S_md>>, err |-> NoErr]
  ELSE IF ~IsDirectory(td)
  THEN [ok |-> FALSE, file |-> NoFile, err |-> Error(E_cannotRead, <<>>)]
  ELSE IF Cardinality(Matches(td, ident)) = 1
  THEN [ok |-> TRUE, file |-> <<td, CHOOSE f \in Matches(td, ident) : TRUE>>,
        err |-> NoErr]
  ELSE IF Cardinality(Matches(td, ident)) > 1
  THEN [ok |-> FALSE, file |-> NoFile, err |-> Error(E_ambiguous, ident)]
  ELSE [ok |-> FALSE, file |-> NoFile, err |-> Error(E_notFound, ident)]

\* path.basename(file, '.md')
Basename(file) == SubSeq(file[2], 1, Len(file[2]) - Len(S_md))

\* line 126
ResolveTarget ==
  /\ pc = "resolve"
  /\ touched' = TRUE
  /\ LET r == resolveTicket(ticketsDir, id) IN
       IF r.ok
       THEN ticketFile' = r.file /\ pc' = "load" /\ UNCHANGED endVars
       ELSE Exit(1, r.err, <<>>) /\ UNCHANGED ticketFile
  /\ UNCHANGED <<args, worldVars, log, i, reqVars, ticketsDir, dir, docVars,
                 nwrites>>

----------------------------------------------------------------------------
(* Load, amend, write back *)

FileContent(file) == store[file[1]][file[2]]

\* lines 130-151
Load ==
  /\ pc = "load"
  /\ LET content == FileContent(ticketFile) IN
       IF ~HasFrontmatter(content)
       THEN Exit(1, Error(E_noFrontmatter, <<>>), <<>>) /\ UNCHANGED docVars
       ELSE /\ fields' = ParseFields(FrontmatterRaw(content))
            /\ body' = BodyOf(content)
            /\ newBody' = BodyOf(content)
            /\ pc' = "amend"
            /\ UNCHANGED endVars
  /\ UNCHANGED <<args, worldVars, log, i, reqVars, locVars, nwrites, touched>>

\* lines 171-189: the scalar replacements, in the order of the code
SetIf(fs, key, value) == IF value # Null THEN setField(fs, key, value) ELSE fs
ScalarsApplied(fs) ==
  SetIf(SetIf(SetIf(SetIf(fs, K_type, type), K_priority, priority),
              K_assignee, assignee), K_externalRef, externalRef)

\* let changed = false, set to true by every requested amendment (lines 169-229)
ChangedAlways == TRUE
Changed ==
  \/ type # Null \/ priority # Null \/ assignee # Null \/ externalRef # Null
  \/ parent # Null \/ tags # Null \/ description # Null

\* lines 191-220 on the fields the scalar replacements left, for a parent that
\* resolved to the file pf
ParentAndTagsApplied(f4, pf) ==
  LET f5 == IF parent # Null THEN setField(f4, K_parent, Basename(pf)) ELSE f4
  IN  IF tags # Null THEN AppendTags(f5, tags) ELSE f5

\* line 223-229
NewBody == IF description # Null THEN AppendBody(body, description) ELSE body

\* Amend with the scalar replacements written to the file as soon as they are
\* made, before the parent is resolved
AmendEarlyWrite ==
  /\ pc = "amend"
  /\ LET f4 == ScalarsApplied(fields)
         r  == resolveTicket(ticketsDir, parent)
     IN
       IF parent # Null /\ ~r.ok
       THEN /\ Exit(1, r.err, <<>>)
            /\ store' = [store EXCEPT ![ticketFile[1]][ticketFile[2]] =
                                        Serialize(f4, body)]
            /\ nwrites' = nwrites + 1
            /\ UNCHANGED docVars
       ELSE IF tags = Undefined
       THEN /\ Exit(1, Error(E_typeError, <<>>), <<>>)
            /\ UNCHANGED <<docVars, store, nwrites>>
       ELSE IF ~Changed
       THEN /\ Exit(1, Error(E_nothing, <<>>), <<>>)
            /\ UNCHANGED <<docVars, store, nwrites>>
       ELSE /\ fields' = ParentAndTagsApplied(f4, r.file)
            /\ newBody' = NewBody
            /\ pc' = "write"
            /\ UNCHANGED <<body, endVars, store, nwrites>>
  /\ UNCHANGED <<args, envSet, envDir, cwd, tfiles, store0, log, i, reqVars,
                 locVars, touched>>

\* lines 169-234: every amendment in memory, or the error that ends the run
Amend ==
  /\ pc = "amend"
  /\ LET f4 == ScalarsApplied(fields)
         r  == resolveTicket(ticketsDir, parent)
     IN
       IF parent # Null /\ ~r.ok
       THEN Exit(1, r.err, <<>>) /\ UNCHANGED docVars
       ELSE IF tags = Undefined
       THEN Exit(1, Error(E_typeError, <<>>), <<>>) /\ UNCHANGED docVars
       ELSE IF ~Changed
       THEN Exit(1, Error(E_nothing, <<>>), <<>>) /\ UNCHANGED docVars
       ELSE /\ fields' = ParentAndTagsApplied(f4, r.file)
            /\ newBody' = NewBody
            /\ pc' = "write"
            /\ UNCHANGED <<body, endVars>>
  /\ UNCHANGED <<args, worldVars, log, i, reqVars, locVars, nwrites, touched>>

\* lines 238-246
WriteBack ==
  /\ pc = "write"
  /\ store' = [store EXCEPT ![ticketFile[1]][ticketFile[2]] =
                              Serialize(fields, newBody)]
  /\ nwrites' = nwrites + 1
  /\ Exit(0, NoErr, <<O_amended>> \o Basename(ticketFile))
  /\ UNCHANGED <<args, envSet, envDir, cwd, tfiles, store0, log, i, reqVars,
                 locVars, docVars, touched>>

----------------------------------------------------------------------------
(* One run, from a command line and a file system *)

\* sequences over S of length at most n
SeqsUpTo(S, n) == UNION {[1..k -> S] : k \in 0..n}

\* the state of the process when the script starts
ProcessStart ==
  /\ pc = "start"
  /\ i = 1
  /\ id = Null /\ description = Null /\ type = Null /\ priority = Null
  /\ assignee = Null /\ externalRef = Null /\ parent = Null /\ tags = Null
  /\ ticketsDir = <<>> /\ dir = <<>> /\ ticketFile = NoFile
  /\ fields = <<>> /\ body = <<>> /\ newBody = <<>>
  /\ exitCode = NoExit /\ err = NoErr /\ out = <<>>
  /\ nwrites = 0 /\ touched = FALSE

\* a ticket file as the tests write it (test/amend.test.js, makeTicket)
Ticket(lines, b) == Open \o Join(lines, <<NL>>) \o Close \o b

S_ab == <<"a","b">>
S_ac == <<"a","c">>
S_a  == <<"a">>
S_c  == <<"c">>
S_kv == <<"k","=","v">>
L_id_ab     == <<"i","d",":",SP,"a","b">>
L_type_task == K_type \o <<":",SP,"t","a","s","k">>
B_text      == <<"#",SP,"T",NL,NL,"D",NL>>

P_project == <<"/", "p">>
P_sub     == <<"/", "p", "q">>
P_bare    == <<"/", "x">>
P_tickets == PathJoin(P_project, TicketsName)
P_missing == <<"/", "gone">>

\* /p/.tickets: a well-formed ticket ab.md, a file ac.md without frontmatter
MainStore ==
  (P_tickets :> ((S_ab \o S_md) :> Ticket(<<L_id_ab, L_type_task>>, B_text)
                 @@ (S_ac \o S_md) :> B_text))

MainTokens ==
  {S_ab, S_a, S_c, S_kv, F_t, F_parent, F_set, F_append, F_h, F_tkDescribe}

MaxArgs == 3

\* TICKETS_DIR and the current directory
MainPlaces ==
  { [set |-> FALSE, val |-> <<>>,      at |-> P_sub],
    [set |-> FALSE, val |-> <<>>,      at |-> P_bare],
    [set |-> TRUE,  val |-> P_tickets, at |-> P_bare],
    [set |-> TRUE,  val |-> P_missing, at |-> P_sub] }

Init ==
  /\ args \in SeqsUpTo(MainTokens, MaxArgs)
  /\ \E w \in MainPlaces : envSet = w.set /\ envDir = w.val /\ cwd = w.at
  /\ tfiles = {}
  /\ store = MainStore
  /\ store0 = store
  /\ log = <<>>
  /\ ProcessStart

Next ==
  \/ Meta
  \/ ParseArg
  \/ RequireId
  \/ FindTicketsDir
  \/ Walk
  \/ ResolveTarget
  \/ Load
  \/ Amend
  \/ WriteBack

Spec == Init /\ [][Next]_vars

----------------------------------------------------------------------------
(* Properties of one run *)

MutatingFlags ==
  {F_d, F_description, F_t, F_type, F_p, F_priority, F_a, F_assignee,
   F_externalRef, F_parent, F_tags}
RecognisedFlags == MutatingFlags \cup {F_h, F_help, F_tkDescribe}

Ended == pc = "done"
Fatal == Ended /\ err # NoErr

\* the content of the resolved ticket when the run started
OriginalContent == store0[ticketFile[1]][ticketFile[2]]

\* the fields and the body in memory hold every requested amendment
RequestApplied ==
  /\ type # Null => getField(fields, K_type) = type
  /\ priority # Null => getField(fields, K_priority) = priority
  /\ assignee # Null => getField(fields, K_assignee) = assignee
  /\ externalRef # Null => getField(fields, K_externalRef) = externalRef
  /\ parent # Null =>
       /\ resolveTicket(ticketsDir, parent).ok
       /\ getField(fields, K_parent) =
            Basename(resolveTicket(ticketsDir, parent).file)
  /\ tags # Null =>
       \A t \in Range(TrimmedNonEmpty(Split(tags, ","))) :
          SeqIncludes(ExistingTags(getField(fields, K_tags)), t)
  /\ description # Null => newBody = AppendBody(body, description)

(* C4: there is no partial success.  A run that ends in a fatal error has a
   non-zero exit status, has written nothing and leaves the whole store as it
   found it; a run writes at most once, only as its last step, and what it
   writes is the serialisation of the fields and body that already hold every
   requested amendment, the resolved parent included; no other file changes. *)
C4_NoPartialSuccess ==
  /\ nwrites \in {0, 1}
  /\ Fatal => exitCode \notin {0, NoExit} /\ nwrites = 0
  /\ (Ended /\ exitCode # 0) => Fatal
  /\ nwrites = 0 => store = store0
  /\ nwrites = 1 =>
       /\ Ended /\ exitCode = 0 /\ err = NoErr
       /\ store = [store0 EXCEPT ![ticketFile[1]][ticketFile[2]] =
                                   Serialize(fields, newBody)]
       /\ RequestApplied

\* a run that failed on its --parent value after the target was loaded
C4_Witness ==
  /\ Fatal
  /\ parent # Null
  /\ ticketFile # NoFile
  /\ err.msg \in {E_notFound, E_ambiguous}
  /\ store = store0

(* C5: `<id> --set KEY=VALUE` and `<id> --append KEY=VALUE` on a resolvable
   ticket succeed, the first replacing field KEY by VALUE and the second
   appending VALUE to the list field KEY; neither ends as an unknown option. *)
C5_SetAndAppendRecognised ==
  (/\ Ended
   /\ args \in {<<S_ab, F_set, S_kv>>, <<S_ab, F_append, S_kv>>}
   /\ envSet /\ envDir = P_tickets)
  => /\ exitCode = 0
     /\ err.msg # E_unknownOption
     /\ getField(ParseFields(FrontmatterRaw(
                   store[P_tickets][S_ab \o S_md])), <<"k">>)
          = IF args[2] = F_set THEN <<"v">> ELSE <<"[", "v", "]">>

\* no token of the command line is a mutating flag
NoMutatingFlag == \A k \in 1..Len(args) : args[k] \notin MutatingFlags

(* C6 as stated: every run that resolved its identifier and has no mutating
   flag fails with 'nothing to amend', a non-zero status and the file as it
   was. *)
C6_Original ==
  (Ended /\ NoMutatingFlag /\ ticketFile # NoFile)
  => /\ err.msg = E_nothing
     /\ exitCode \notin {0, NoExit}
     /\ store = store0

(* C6, amended: every run that resolved its identifier to a ticket file with a
   valid frontmatter block and has no mutating flag fails with 'nothing to
   amend' and a non-zero status; and every run without a mutating flag,
   however it ends, leaves every file as it was. *)
C6_NothingToAmend ==
  /\ (Ended /\ NoMutatingFlag /\ ticketFile # NoFile
      /\ HasFrontmatter(OriginalContent))
     => /\ err.msg = E_nothing
        /\ exitCode \notin {0, NoExit}
  /\ NoMutatingFlag => store = store0 /\ nwrites = 0

C6_Witness ==
  /\ Ended /\ NoMutatingFlag /\ ticketFile # NoFile
  /\ HasFrontmatter(OriginalContent)
  /\ err.msg = E_nothing

HelpOrDiscovery ==
  \/ SeqIncludes(args, F_tkDescribe) \/ SeqIncludes(args, F_h)
  \/ SeqIncludes(args, F_help) \/ Len(args) = 0

\* a token that begins with '-' and is no flag of the program
Unrecognised(a) == StartsWith(a, <<"-">>) /\ a \notin RecognisedFlags
ValueTaking(a) == a \in MutatingFlags

(* C8 as stated: when the command line is no help or discovery invocation, an
   unrecognised token that begins with '-', at any position, ends the run with
   'unknown option' naming such a token, exit code 1 and nothing touched. *)
C8_Original ==
  (Ended /\ ~HelpOrDiscovery /\ \E k \in 1..Len(args) : Unrecognised(args[k]))
  => /\ err.msg = E_unknownOption
     /\ Unrecognised(err.arg)
     /\ exitCode = 1
     /\ ~touched

\* the positions the argument loop reads as options or identifiers: the first,
\* and the one after each, skipping the value of a value-taking flag
RECURSIVE OptionPosition(_)
OptionPosition(k) ==
  \/ k = 1
  \/ k > 1 /\ OptionPosition(k - 1) /\ ~ValueTaking(args[k - 1])
  \/ k > 2 /\ OptionPosition(k - 2) /\ ValueTaking(args[k - 2])

UnknownAt ==
  {k \in 1..Len(args) : OptionPosition(k) /\ Unrecognised(args[k])}

(* C8, amended: when the command line is no help or discovery invocation, an
   unrecognised token that begins with '-' and is not consumed as the value of
   the value-taking flag before it ends the run with 'unknown option' naming
   the first such token, exit code 1, before any directory or file is touched;
   the token directly after a value-taking flag is that flag's value, whatever
   it begins with. *)
C8_UnknownOption ==
  /\ (Ended /\ ~HelpOrDiscovery /\ UnknownAt # {})
     => /\ err.msg = E_unknownOption
        /\ err.arg = args[CHOOSE k \in UnknownAt : \A j \in UnknownAt : k <= j]
        /\ exitCode = 1
        /\ ~touched
        /\ store = store0
  /\ (Ended /\ err.msg = E_unknownOption)
     => ~HelpOrDiscovery /\ UnknownAt # {}

\* an unknown option found after the identifier
C8_Witness ==
  /\ Ended /\ err.msg = E_unknownOption
  /\ Len(args) >= 2 /\ ~Unrecognised(args[1])
  /\ exitCode = 1 /\ ~touched

----------------------------------------------------------------------------
(* The directory walk: a chain of directories from the root to the current
   directory, each with no .tickets entry, a .tickets file or a .tickets
   directory, and the four shapes of the override *)

MaxDepth == 2

\* /1/2/.../n
Chain(n) == Root \o [k \in 1..n |-> ToString(k)]
Ancestors(p) == {SubSeq(p, 1, k) : k \in 1..Len(p)}

P_other == <<"/", "o", TicketsName>>

DirPlaces ==
  { [set |-> FALSE, val |-> <<>>],
    [set |-> TRUE,  val |-> <<>>],
    [set |-> TRUE,  val |-> P_other],
    [set |-> TRUE,  val |-> P_missing] }

InitDir ==
  /\ args = <<S_ab, F_parent, S_c>>
  /\ \E w \in DirPlaces : envSet = w.set /\ envDir = w.val
  /\ \E n \in 0..MaxDepth :
     \E kind \in [0..n -> {"none", "file", "dir"}] :
        /\ cwd = Chain(n)
        /\ tfiles = {PathJoin(Chain(k), TicketsName) :
                       k \in {j \in 0..n : kind[j] = "file"}}
        /\ store = [p \in {P_other} \cup
                          {PathJoin(Chain(k), TicketsName) :
                             k \in {j \in 0..n : kind[j] = "dir"}}
                      |-> MainStore[P_tickets]]
  /\ store0 = store
  /\ log = <<>>
  /\ ProcessStart

SpecDir == InitDir /\ [][Next]_vars
\* the while loop of lines 84-92 is synchronous code of a single process: once
\* entered, its next iteration is always taken
FairSpecDir == SpecDir /\ WF_vars(Walk)

\* TICKETS_DIR is truthy (line 80)
Override == envSet /\ envDir # <<>>

\* the run is past findTicketsDir (line 99)
Located == pc \in {"resolve", "load", "amend", "write"} \/ ticketFile # NoFile

(* C9 as stated: whenever TICKETS_DIR is set, the storage directory is its
   value, for the target and for the parent, and the walk never starts. *)
C9_Original ==
  envSet =>
    /\ pc # "walk" /\ dir = <<>>
    /\ Located => ticketsDir = envDir
    /\ ticketFile # NoFile => ticketFile[1] = envDir

(* C9, amended: whenever TICKETS_DIR is set to a non-empty value, the storage
   directory is exactly that value, for the target and for the --parent value,
   even where the walk from the current directory would find another .tickets
   directory, and the walk never starts; an empty value counts as unset. *)
C9_OverrideWins ==
  /\ Override =>
       /\ pc # "walk" /\ dir = <<>>
       /\ Located => ticketsDir = envDir
       /\ ticketFile # NoFile => ticketFile[1] = envDir
       /\ (Ended /\ exitCode = 0) =>
            /\ resolveTicket(envDir, parent).ok
            /\ getField(fields, K_parent) =
                 Basename(resolveTicket(envDir, parent).file)
  /\ (envSet /\ envDir = <<>> /\ pc \notin {"start", "parse", "findDir"})
       => dir # <<>>

\* the override was used although the walk would have found a directory
C9_Witness ==
  /\ Override /\ Ended /\ exitCode = 0
  /\ ticketFile[1] = envDir
  /\ IsDirectory(PathJoin(cwd, TicketsName))
  /\ PathJoin(cwd, TicketsName) # envDir

\* the ancestors of the current directory, itself included, that hold a
\* .tickets directory
WithTickets == {a \in Ancestors(cwd) : IsDirectory(PathJoin(a, TicketsName))}
Nearest == CHOOSE a \in WithTickets : \A b \in WithTickets : Len(b) <= Len(a)

\* the walk goes up from the current directory, past directories without a
\* .tickets directory only, and ends with the nearest one or the error
WalkCorrect ==
  /\ pc = "walk" =>
       /\ dir \in Ancestors(cwd)
       /\ \A a \in WithTickets : Len(a) <= Len(dir)
  /\ (~Override /\ dir # <<>> /\ pc # "walk") =>
       IF WithTickets # {}
       THEN ticketsDir = PathJoin(Nearest, TicketsName)
       ELSE /\ Ended /\ err.msg = E_noTicketsDir /\ exitCode \notin {0, NoExit}
            /\ dir = Root /\ ticketFile = NoFile
  /\ err.msg = E_noTicketsDir => ~Override /\ WithTickets = {}

(* C10: with no override the walk always terminates; it tests the current
   directory and then each ancestor in order, returns the .tickets directory of
   the nearest one that has one, and at the root without a match it fails with
   'no .tickets directory found' and a non-zero status. *)
C10_WalkTerminates ==
  /\ [] WalkCorrect
  /\ (pc = "walk") ~> (pc # "walk")

\* the walk went up at least one level, past a .tickets that is a file, and
\* found a directory
C10_Witness ==
  /\ ~Override /\ pc = "resolve"
  /\ Len(dir) < Len(cwd)
  /\ PathJoin(cwd, TicketsName) \in tfiles
  /\ ticketsDir = PathJoin(dir, TicketsName)

----------------------------------------------------------------------------
(* Identifier resolution: every identifier up to MaxIdLen characters, as the
   target or as the --parent value, against every set of directory entries *)

MaxIdLen == 2

S_t == <<"t">>
IdChars == {"a", "b", SP, "d"}
Idents == SeqsUpTo(IdChars, MaxIdLen)

\* entries a directory may hold besides t.md; the last is no ticket file
EntryNames ==
  {<<"a">> \o S_md, <<"a","b">> \o S_md, <<"b">> \o S_md, <<"b","a">> \o S_md,
   <<"a","b">>}

InitResolve ==
  /\ \E x \in Idents : args \in {<<x, F_t, S_kv>>, <<S_t, F_parent, x>>}
  /\ envSet = FALSE /\ envDir = <<>> /\ cwd = P_sub
  /\ tfiles = {}
  /\ \E names \in SUBSET EntryNames :
        store = (P_tickets :> [f \in names \cup {S_t \o S_md}
                                 |-> Ticket(<<L_type_task>>, <<>>)])
  /\ store0 = store
  /\ log = <<>>
  /\ ProcessStart

SpecResolve == InitResolve /\ [][Next]_vars

\* the ticket files of the storage directory that have the trimmed identifier
\* as a substring of their name
TicketNames == {f \in DOMAIN store[ticketsDir] : EndsWith(f, S_md)}
Hits(ident) == {f \in TicketNames : Includes(f, Trim(ident))}
ExactName(ident) == Trim(ident) \o S_md

\* the target has been through resolveTicket; so has the --parent value
TargetTried == ticketsDir # <<>> /\ pc # "resolve"
ParentTried == parent # Null /\ ticketFile # NoFile /\ pc \in {"write", "done"}

TargetIs(f) == ticketFile = <<ticketsDir, f>>
TargetFails(msg) ==
  /\ Ended /\ ticketFile = NoFile
  /\ err = Error(msg, id) /\ exitCode \notin {0, NoExit}
ParentIs(f) ==
  /\ getField(fields, K_parent) = SubSeq(f, 1, Len(f) - Len(S_md))
  /\ err = NoErr
ParentFails(msg) ==
  /\ Ended /\ err = Error(msg, parent) /\ exitCode \notin {0, NoExit}
  /\ store = store0

(* C3 as stated: an identifier that is a substring of exactly one ticket
   filename resolves to that file, of none fails with 'not found', of two or
   more fails with 'ambiguous'; for the target and for the --parent value. *)
C3_Original ==
  /\ TargetTried =>
       /\ Cardinality(Hits(id)) = 1 => \E f \in Hits(id) : TargetIs(f)
       /\ Cardinality(Hits(id)) = 0 => TargetFails(E_notFound)
       /\ Cardinality(Hits(id)) >= 2 => TargetFails(E_ambiguous)
  /\ ParentTried =>
       /\ Cardinality(Hits(parent)) = 1 => \E f \in Hits(parent) : ParentIs(f)
       /\ Cardinality(Hits(parent)) = 0 => ParentFails(E_notFound)
       /\ Cardinality(Hits(parent)) >= 2 => ParentFails(E_ambiguous)

(* C3, amended: when `<trimmed identifier>.md` exists in the storage directory
   the identifier resolves to that file, even if it is a substring of other
   filenames too; otherwise it resolves to the single ticket filename that has
   it as a substring, fails with 'not found' when there is none and with
   'ambiguous' when there are two or more; for the target and for the
   --parent value. *)
C3_Resolution ==
  /\ TargetTried =>
       IF ExactName(id) \in DOMAIN store[ticketsDir] THEN TargetIs(ExactName(id))
       ELSE /\ Cardinality(Hits(id)) = 1 => \E f \in Hits(id) : TargetIs(f)
            /\ Cardinality(Hits(id)) = 0 => TargetFails(E_notFound)
            /\ Cardinality(Hits(id)) >= 2 => TargetFails(E_ambiguous)
  /\ ParentTried =>
       IF ExactName(parent) \in DOMAIN store[ticketsDir]
       THEN ParentIs(ExactName(parent))
       ELSE /\ Cardinality(Hits(parent)) = 1 => \E f \in Hits(parent) : ParentIs(f)
            /\ Cardinality(Hits(parent)) = 0 => ParentFails(E_notFound)
            /\ Cardinality(Hits(parent)) >= 2 => ParentFails(E_ambiguous)

\* an exact match won although the identifier is a substring of two filenames
C3_Witness ==
  /\ TargetTried
  /\ ExactName(id) \in DOMAIN store[ticketsDir]
  /\ Cardinality(Hits(id)) >= 2
  /\ TargetIs(ExactName(id))

----------------------------------------------------------------------------
(* Scalar replacement: one scalar flag on a ticket whose frontmatter is any
   sequence of up to MaxLines lines of the shapes below *)

MaxLines == 2

LineShapes ==
  { K_type \o <<":", SP, "a">>,        \* type: a
    K_type \o <<":", "a">>,            \* type:a
    K_priority \o <<":", SP, "1">>,    \* priority: 1
    <<"s", ":", "b">>,                 \* s:b
    <<"s", ":">>,                      \* s:
    <<"s", ":", SP, SP, "b">>,         \* s:  b
    <<SP, "o">>,                       \* an indented line
    <<>> }                             \* a blank line

ScalarFlags == {F_t, F_type, F_p, F_priority, F_a, F_assignee, F_externalRef}
ScalarValues == {<<"x">>, <<SP, "x">>}

InitFields ==
  /\ \E f \in ScalarFlags, v \in ScalarValues : args = <<S_ab, f, v>>
  /\ envSet = FALSE /\ envDir = <<>> /\ cwd = P_sub
  /\ tfiles = {}
  /\ \E lines \in SeqsUpTo(LineShapes, MaxLines) :
        store = (P_tickets :> ((S_ab \o S_md) :> Ticket(lines, B_text)))
  /\ store0 = store
  /\ log = <<>>
  /\ ProcessStart

SpecFields == InitFields /\ [][Next]_vars

\* the field a scalar flag replaces
KeyOfFlag(f) ==
  IF f \in {F_t, F_type} THEN K_type
  ELSE IF f \in {F_p, F_priority} THEN K_priority
  ELSE IF f \in {F_a, F_assignee} THEN K_assignee
  ELSE K_externalRef

\* the frontmatter lines of a file, and the first line that is a field `key`
LinesOf(content) == Split(FrontmatterRaw(content), NL)
FieldLine(lines, key) ==
  LET at == {k \in 1..Len(lines) :
               LineMatches(lines[k]) /\ LineKey(lines[k]) = key}
  IN  IF at = {} THEN 0 ELSE CHOOSE k \in at : \A j \in at : k <= j

(* C1: a scalar replace flag used alone sets exactly that field to the
   supplied value; every other frontmatter line, recognised field or opaque,
   and the body are byte-identical to the original. *)
C1_ScalarReplaceFrame ==
  (Ended /\ exitCode = 0 /\ Len(args) = 3 /\ args[2] \in ScalarFlags) =>
    LET old == LinesOf(OriginalContent)
        new == LinesOf(FileContent(ticketFile))
        key == KeyOfFlag(args[2])
        at  == FieldLine(old, key)
    IN  /\ BodyOf(FileContent(ticketFile)) = BodyOf(OriginalContent)
        /\ getField(ParseFields(FrontmatterRaw(FileContent(ticketFile))), key)
             = args[3]
        /\ Len(new) = IF at = 0 THEN Len(old) + 1 ELSE Len(old)
        /\ \A k \in 1..Len(old) : k # at => new[k] = old[k]

----------------------------------------------------------------------------
(* Tag append: --tags on a ticket whose tags field is absent or holds up to
   MaxTags tokens, with or without brackets, separated by ', ' or ',' *)

MaxTags == 2
MaxNew  == 2

TagsValues ==
  { b[1] \o Join(toks, sep) \o b[2] :
      b \in {<< <<"[">>, <<"]">> >>, << <<>>, <<>> >>},
      sep \in {<<",", SP>>, <<",">>},
      toks \in SeqsUpTo({<<"a">>, <<"b">>}, MaxTags) }

TagsInputs ==
  { Join(toks, <<",">>) :
      toks \in SeqsUpTo({<<"a">>, <<"b">>, <<"c">>, <<SP, "c">>, <<>>}, MaxNew) }

InitTags ==
  /\ \E x \in TagsInputs : args = <<S_ab, F_tags, x>>
  /\ envSet = FALSE /\ envDir = <<>> /\ cwd = P_sub
  /\ tfiles = {}
  /\ \E lines \in {<<L_type_task>>} \cup
                  {<<L_type_task, K_tags \o <<":", SP>> \o v>> : v \in TagsValues} :
        store = (P_tickets :> ((S_ab \o S_md) :> Ticket(lines, B_text)))
  /\ store0 = store
  /\ log = <<>>
  /\ ProcessStart

SpecTags == InitTags /\ [][Next]_vars

\* the value of the tags field before and after the run, Null when absent
OldTagsValue == getField(ParseFields(FrontmatterRaw(OriginalContent)), K_tags)
NewTagsValue ==
  getField(ParseFields(FrontmatterRaw(FileContent(ticketFile))), K_tags)

\* the tokens of a tags value or of a --tags input: what stands between the
\* commas, trimmed, the empty ones dropped, inside one pair of brackets if any
RECURSIVE Tokens(_)
Tokens(pieces) ==
  IF pieces = <<>> THEN <<>>
  ELSE (IF Trim(Head(pieces)) = <<>> THEN <<>> ELSE <<Trim(Head(pieces))>>)
       \o Tokens(Tail(pieces))
Unbracketed(v) ==
  LET a == IF StartsWith(v, <<"[">>) THEN SubSeq(v, 2, Len(v)) ELSE v
  IN  IF EndsWith(a, <<"]">>) THEN SubSeq(a, 1, Len(a) - 1) ELSE a
TagsIn(v) == IF v = Null THEN <<>> ELSE Tokens(Split(Unbracketed(v), ","))

\* [t1, t2, ...]
RECURSIVE CommaSpaced(_)
CommaSpaced(list) ==
  IF list = <<>> THEN <<>>
  ELSE IF Len(list) = 1 THEN list[1]
  ELSE list[1] \o <<",", SP>> \o CommaSpaced(Tail(list))
Bracketed(list) == <<"[">> \o CommaSpaced(list) \o <<"]">>

Distinct(list) == \A j, k \in 1..Len(list) : j # k => list[j] # list[k]
TagsRun == Ended /\ exitCode = 0 /\ Len(args) = 3 /\ args[2] = F_tags
AllPresent(inp, old) == inp # <<>> /\ \A k \in 1..Len(inp) : SeqIncludes(old, inp[k])
NonePresent(inp, old) == \A k \in 1..Len(inp) : ~SeqIncludes(old, inp[k])

(* C2 as stated: for every existing tags value and every --tags input,
   appending tags that are all present leaves the encoded tags value as it
   was, and appending N distinct tags that are not present yields the original
   list followed by them in input order, encoded as [t1, t2, ...]. *)
C2_Original ==
  TagsRun =>
    LET old == TagsIn(OldTagsValue)
        inp == TagsIn(args[3])
    IN  /\ AllPresent(inp, old) => NewTagsValue = OldTagsValue
        /\ (Distinct(inp) /\ NonePresent(inp, old)) =>
             NewTagsValue = Bracketed(old \o inp)

(* C2, amended: for every existing tags value and every --tags input,
   appending tags that are all present yields the existing list re-encoded as
   [t1, t2, ...], which is no change when the value was already encoded that
   way; appending N distinct tags that are not present yields the original
   list followed by them in input order, encoded as [t1, t2, ...]; a ticket
   with no tags field counts as the empty list. *)
C2_TagsAppend ==
  TagsRun =>
    LET old == TagsIn(OldTagsValue)
        inp == TagsIn(args[3])
    IN  /\ AllPresent(inp, old) => NewTagsValue = Bracketed(old)
        /\ (AllPresent(inp, old) /\ OldTagsValue = Bracketed(old)) =>
             NewTagsValue = OldTagsValue
        /\ (Distinct(inp) /\ NonePresent(inp, old)) =>
             NewTagsValue = Bracketed(old \o inp)
        /\ OldTagsValue = Null => old = <<>>

\* a tag already present appended to a two-tag list: nothing changes
C2_Witness ==
  /\ TagsRun
  /\ Len(TagsIn(OldTagsValue)) = 2
  /\ AllPresent(TagsIn(args[3]), TagsIn(OldTagsValue))
  /\ NewTagsValue = OldTagsValue
  /\ store = store0

----------------------------------------------------------------------------
(* Description append, twice: -d on a ticket with any body up to MaxBody
   characters, then -d again on the file the first run wrote *)

MaxBody == 2
MaxText == 2

Bodies == SeqsUpTo({"x", NL}, MaxBody)
Texts  == SeqsUpTo({"y", SP}, MaxText)

InitBody ==
  /\ \E d \in Texts : args = <<S_ab, F_d, d>>
  /\ envSet = FALSE /\ envDir = <<>> /\ cwd = P_sub
  /\ tfiles = {}
  /\ \E b \in Bodies :
        store = (P_tickets :> ((S_ab \o S_md) :> Ticket(<<L_type_task>>, b)))
  /\ store0 = store
  /\ log = <<>>
  /\ ProcessStart

\* the program is started again after a successful run, on the files as the
\* run left them (test 'appends description multiple times', lines 194-202)
NextRun ==
  /\ pc = "done" /\ exitCode = 0
  /\ log = <<>>
  /\ log' = Append(log, args)
  /\ \E d \in Texts : args' = <<S_ab, F_d, d>>
  /\ pc' = "start"
  /\ i' = 1
  /\ id' = Null /\ description' = Null /\ type' = Null /\ priority' = Null
  /\ assignee' = Null /\ externalRef' = Null /\ parent' = Null /\ tags' = Null
  /\ ticketsDir' = <<>> /\ dir' = <<>> /\ ticketFile' = NoFile
  /\ fields' = <<>> /\ body' = <<>> /\ newBody' = <<>>
  /\ exitCode' = NoExit /\ err' = NoErr /\ out' = <<>>
  /\ nwrites' = 0 /\ touched' = FALSE
  /\ UNCHANGED worldVars

NextBody == Next \/ NextRun

SpecBody == InitBody /\ [][NextBody]_vars

\* the second of two successful -d runs has ended
SecondRunDone ==
  /\ Ended /\ exitCode = 0 /\ Len(log) = 1
  /\ args[2] = F_d /\ log[1][2] = F_d
FirstText  == log[1][3]
SecondText == args[3]
FinalBody  == BodyOf(FileContent(ticketFile))
BlankLine  == <<NL, NL>>

(* C7 as stated: after -d D1 and then -d D2 the body is the original text of
   B, D1 and D2 in that order, one blank line between each two, the earlier
   content as it was, for every B, D1 and D2. *)
C7_Original ==
  SecondRunDone =>
    FinalBody = TrimEnd(BodyOf(OriginalContent)) \o BlankLine \o FirstText
                  \o BlankLine \o SecondText \o <<NL>>

(* C7, amended: after -d D1 and then -d D2 the body is B without its trailing
   whitespace, D1 without its trailing whitespace and D2, in that order, one
   blank line between each two; a D1 that is empty or only whitespace is gone
   after the second run.  For a non-empty D1 that does not end in whitespace
   this is the layout C7 states. *)
C7_Cumulative ==
  SecondRunDone =>
    LET b  == TrimEnd(BodyOf(OriginalContent))
        d1 == TrimEnd(FirstText)
    IN  /\ d1 # <<>> =>
             FinalBody = b \o BlankLine \o d1 \o BlankLine \o SecondText \o <<NL>>
        /\ d1 = <<>> => FinalBody = b \o BlankLine \o SecondText \o <<NL>>

\* two texts appended to a body that ended in a newline
C7_Witness ==
  /\ SecondRunDone
  /\ FirstText # <<>> /\ TrimEnd(FirstText) = FirstText
  /\ SecondText # <<>>
  /\ BodyOf(OriginalContent) # TrimEnd(BodyOf(OriginalContent))
  /\ TrimEnd(BodyOf(OriginalContent)) # <<>>
  /\ FinalBody = TrimEnd(BodyOf(OriginalContent)) \o BlankLine \o FirstText
                   \o BlankLine \o SecondText \o <<NL>>

----------------------------------------------------------------------------
(* Plugin discovery *)

Discovery == SeqIncludes(args, F_tkDescribe)

(* C11: a run whose argument list contains --tk-describe does nothing but
   print the plugin descriptor and exit 0: no argument is parsed, no storage
   directory is resolved, no file is looked at, read or written, whatever else
   the argument list holds and whether or not a ticket store exists. *)
C11_DiscoveryFirst ==
  Discovery =>
    /\ pc \in {"start", "done"}
    /\ i = 1
    /\ id = Null /\ description = Null /\ type = Null /\ priority = Null
    /\ assignee = Null /\ externalRef = Null /\ parent = Null /\ tags = Null
    /\ ticketsDir = <<>> /\ ticketFile = NoFile
    /\ touched = FALSE /\ nwrites = 0 /\ store = store0
    /\ Ended => exitCode = 0 /\ err = NoErr /\ out = <<O_describe>>

\* discovery has answered although the option before it is unknown, there is
\* no identifier and TICKETS_DIR names a directory that does not exist
C11_Witness ==
  /\ Ended /\ exitCode = 0 /\ out = <<O_describe>>
  /\ args = <<F_set, F_tkDescribe>>
  /\ envSet /\ envDir = P_missing

----------------------------------------------------------------------------
(* Runs that change nothing *)

\* the fields and the body as Load read them from the file
LoadedFields == ParseFields(FrontmatterRaw(OriginalContent))
LoadedBody   == BodyOf(OriginalContent)

\* the run went through every requested mutation: it ended without an error
\* of resolution, of loading or of a mutation
MutationsDone ==
  /\ Ended /\ ticketFile # NoFile
  /\ exitCode = 0 \/ err = Error(E_nothing, <<>>)

\* no field and no part of the body differs from what was loaded
ZeroChanges == fields = LoadedFields /\ newBody = LoadedBody

(* C12: a run whose requested mutations leave every frontmatter field and the
   body equal to the values loaded from the file ends with the 'nothing to
   amend' error and a non-zero status, and does not write the file. *)
C12_NoChangeIsFatal ==
  (MutationsDone /\ ZeroChanges) =>
    /\ exitCode = 1
    /\ err = Error(E_nothing, <<>>)
    /\ nwrites = 0


(* C13: after every successful run with --tags, whatever the tags field held
   before (nothing, [], a list with or without brackets, a list that repeats
   a token), the encoded list holds no token twice, no empty token and only
   trimmed tokens. *)
C13_TagsIsSet ==
  TagsRun =>
    LET new == TagsIn(NewTagsValue)
    IN  /\ NewTagsValue = Bracketed(new)
        /\ Distinct(new)

====
